---- MODULE Spec2Model ----
(***************************************************************************)
(* State-machine model of the ASTRO fungible token contract (src/lib.rs).  *)
(*                                                                         *)
(* The contract is a thin wrapper: `Contract` owns a                       *)
(* near_contract_standards FungibleToken (`token`) and a metadata record,  *)
(* and lines 97-98 expand impl_fungible_token_core! and                    *)
(* impl_fungible_token_storage! over it.  The handlers below follow the    *)
(* code those macros expand to (near-contract-standards 3.x, the release   *)
(* that has ValidAccountId and setup_alloc!): FungibleToken::internal_*,   *)
(* ft_transfer, ft_transfer_call, internal_ft_resolve_transfer,            *)
(* storage_deposit, storage_withdraw and internal_storage_unregister.      *)
(*                                                                         *)
(* Every handler is an operator from the contract state and the call's     *)
(* inputs to an outcome: the new state, the panic message if any, the      *)
(* returned value, the log lines and the NEAR sent back to the caller.     *)
(* One action is one function-call receipt executed by the NEAR runtime:   *)
(* it applies a handler to the current state and writes the state of the   *)
(* outcome back.  A panic reverts every state change of the receipt and    *)
(* the runtime returns the attached deposit to the predecessor, so a       *)
(* failed call leaves the contract exactly where it was: it is no step.    *)
(*                                                                         *)
(* Balances are u128 in the code.  Tokens are minted once, in `new`, and   *)
(* every later credit is paired with an equal debit, so no sum can exceed  *)
(* the initial supply and the checked additions cannot overflow; balances  *)
(* are modelled as naturals bounded by MaxSupply.                          *)
(***************************************************************************)
EXTENDS Integers, Sequences, FiniteSets, TLC

\* ---------------------------------------------------------------- bounds
MaxSupply == 2          \* `new` is called with total_supply in 0..MaxSupply
MaxPromises == 1        \* number of ft_transfer_call commits in one behaviour
StorageMin == 2         \* storage_balance_bounds().min, in abstract NEAR units

\* ------------------------------------------------------------- constants
ADMIN == "avtoken.near"
AccountIds == {ADMIN, "alice", "bob"}
SVG_TOKEN_ICON == "data:image/png;base64,iVBOR"
Images == {"img1"}
Amounts == 0 .. MaxSupply + 1
Deposits == {0, StorageMin - 1, StorageMin, StorageMin + 1}
ONE_YOCTO == 1
None == "None"          \* Option::None of an account or flag argument
NoAmount == 0 - 1       \* Option::None of an amount argument

VARIABLES
    initialized,    \* env::state_exists(): the contract state has been written
    accounts,       \* token.accounts : LookupMap<AccountId, Balance>
    total_supply,   \* token.total_supply
    metadata,       \* metadata : LazyOption<FungibleTokenMetadata>
    promises,       \* ft_on_transfer(..).then(ft_resolve_transfer(..)) in flight
    next_promise    \* number of promise chains created so far

vars == <<initialized, accounts, total_supply, metadata, promises, next_promise>>

\* ------------------------------------------------ LookupMap<AccountId, _>
EmptyMap == [a \in {} |-> 0]

contains_key(m, k) == k \in DOMAIN m

insert(m, k, v) == [a \in DOMAIN m \cup {k} |-> IF a = k THEN v ELSE m[a]]

remove(m, k) == [a \in DOMAIN m \ {k} |-> m[a]]

\* accounts.get(k).unwrap_or(0)
get_or_zero(m, k) == IF k \in DOMAIN m THEN m[k] ELSE 0

RECURSIVE SumOver(_, _)
SumOver(m, S) ==
    IF S = {} THEN 0
    ELSE LET a == CHOOSE x \in S : TRUE IN m[a] + SumOver(m, S \ {a})

SumBalances(m) == SumOver(m, DOMAIN m)

Min(x, y) == IF x <= y THEN x ELSE y

\* ------------------------------------------------------------ view calls
ft_total_supply == total_supply

ft_balance_of(account_id) == get_or_zero(accounts, account_id)

ft_metadata == metadata

\* ------------------------------------------- results of ft_on_transfer
\* env::promise_result(0) is Successful(bytes) or Failed.  The bytes are the
\* JSON the receiver returned; a U128 is a JSON string of decimal digits.
Q == "q"        \* the double-quote character
Digits == <<"0", "1", "2", "3", "4", "5", "6", "7", "8", "9">>

IsDigit(c) == \E i \in 1 .. 10 : Digits[i] = c

DigitValue(c) == (CHOOSE i \in 1 .. 10 : Digits[i] = c) - 1

RECURSIVE DecimalValue(_)
DecimalValue(ds) ==
    IF ds = << >> THEN 0
    ELSE 10 * DecimalValue(SubSeq(ds, 1, Len(ds) - 1)) + DigitValue(ds[Len(ds)])

\* U128 serialises as a JSON string holding the base-10 digits
RECURSIVE ToDigits(_)
ToDigits(n) ==
    IF n < 10 THEN <<Digits[n + 1]>>
    ELSE Append(ToDigits(n \div 10), Digits[(n % 10) + 1])

to_json_U128(n) == <<Q>> \o ToDigits(n) \o <<Q>>

\* near_sdk::serde_json::from_slice::<U128>(&value)
from_slice_U128(value) ==
    LET n == Len(value) IN
    IF /\ n >= 3
       /\ value[1] = Q
       /\ value[n] = Q
       /\ \A i \in 2 .. n - 1 : IsDigit(value[i])
    THEN [ok |-> TRUE, value |-> DecimalValue(SubSeq(value, 2, n - 1))]
    ELSE [ok |-> FALSE, value |-> 0]

\* what a receiver may answer: every declared amount up to one more than the
\* largest transfer, a two-digit amount, and answers that are not a U128
BadValues == {<<"1">>, << >>, <<Q, "x", Q>>}

Declared == Amounts \cup {10}

Values == {to_json_U128(n) : n \in Declared} \cup BadValues

Successful(value) == [status |-> "Successful", value |-> value]

Failed == [status |-> "Failed", value |-> << >>]

PromiseResults == {Successful(v) : v \in Values} \cup {Failed}

\* --------------------------------------------------- state and outcomes
State ==
    [initialized |-> initialized, accounts |-> accounts,
     total_supply |-> total_supply, metadata |-> metadata,
     promises |-> promises, next_promise |-> next_promise]

\* "Transfer {amount} from {from} to {to}", "Closed @{from} with {amount}", ...
LogEntry(event, from, to, amount) ==
    [event |-> event, from |-> from, to |-> to, amount |-> amount]

\* st: the state the receipt leaves; err: "" or the panic message; ret, flag:
\* the returned amount or boolean; log: the log! lines; returned: NEAR sent
\* back to the predecessor by Promise::transfer.
Ok(st, ret, flag, log, returned) ==
    [st |-> st, err |-> "", ret |-> ret, flag |-> flag, log |-> log,
     returned |-> returned]

balance_of(st, account_id) == get_or_zero(st.accounts, account_id)

registered(st, account_id) == contains_key(st.accounts, account_id)

\* a panicking receipt: the state is rolled back to st, the state before the
\* call, and the runtime returns the attached deposit
Panic(st, err, attached) ==
    [st |-> st, err |-> err, ret |-> 0, flag |-> FALSE, log |-> << >>,
     returned |-> attached]

NOT_INITIALIZED == "The contract is not initialized"
ONE_YOCTO_ERR == "Requires attached deposit of exactly 1 yoctoNEAR"
NOT_REGISTERED == "The account is not registered"

\* ------------------------------------------------------- FungibleToken
\* The token is threaded through the internal_* functions as a record; err
\* is the panic raised so far ("" when none).
TokenOf(st) == [accounts |-> st.accounts, total_supply |-> st.total_supply, err |-> ""]

WithToken(st, t) == [st EXCEPT !.accounts = t.accounts, !.total_supply = t.total_supply]

internal_register_account(t, account_id) ==
    IF t.err # "" THEN t
    ELSE IF contains_key(t.accounts, account_id)
    THEN [t EXCEPT !.err = "The account is already registered"]
    ELSE [t EXCEPT !.accounts = insert(@, account_id, 0)]

\* internal_deposit that forgets to track the supply
internal_deposit_supply_untracked(t, account_id, amount) ==
    IF t.err # "" THEN t
    ELSE IF ~contains_key(t.accounts, account_id)
    THEN [t EXCEPT !.err = NOT_REGISTERED]
    ELSE [t EXCEPT !.accounts = insert(@, account_id, @[account_id] + amount)]

internal_deposit(t, account_id, amount) ==
    IF t.err # "" THEN t
    ELSE IF ~contains_key(t.accounts, account_id)
    THEN [t EXCEPT !.err = NOT_REGISTERED]
    ELSE [t EXCEPT !.accounts = insert(@, account_id, @[account_id] + amount),
                   !.total_supply = @ + amount]

\* internal_withdraw that forgets to track the supply
internal_withdraw_supply_untracked(t, account_id, amount) ==
    IF t.err # "" THEN t
    ELSE IF ~contains_key(t.accounts, account_id)
    THEN [t EXCEPT !.err = NOT_REGISTERED]
    ELSE IF t.accounts[account_id] < amount
    THEN [t EXCEPT !.err = "The account doesn't have enough balance"]
    ELSE [t EXCEPT !.accounts = insert(@, account_id, @[account_id] - amount)]

\* internal_withdraw with a wrapping subtraction in place of checked_sub
internal_withdraw_unchecked(t, account_id, amount) ==
    IF t.err # "" THEN t
    ELSE IF ~contains_key(t.accounts, account_id)
    THEN [t EXCEPT !.err = NOT_REGISTERED]
    ELSE [t EXCEPT !.accounts = insert(@, account_id, @[account_id] - amount),
                   !.total_supply = @ - amount]

internal_withdraw(t, account_id, amount) ==
    IF t.err # "" THEN t
    ELSE IF ~contains_key(t.accounts, account_id)
    THEN [t EXCEPT !.err = NOT_REGISTERED]
    ELSE IF t.accounts[account_id] < amount
    THEN [t EXCEPT !.err = "The account doesn't have enough balance"]
    ELSE [t EXCEPT !.accounts = insert(@, account_id, @[account_id] - amount),
                   !.total_supply = @ - amount]

\* internal_transfer that debits the sender and never credits the receiver
internal_transfer_no_deposit(t, sender_id, receiver_id, amount) ==
    IF sender_id = receiver_id
    THEN [t EXCEPT !.err = "Sender and receiver should be different"]
    ELSE IF ~(amount > 0)
    THEN [t EXCEPT !.err = "The amount should be a positive number"]
    ELSE internal_withdraw(t, sender_id, amount)

\* internal_transfer without the assertion that sender and receiver differ
internal_transfer_to_self(t, sender_id, receiver_id, amount) ==
    IF ~(amount > 0)
    THEN [t EXCEPT !.err = "The amount should be a positive number"]
    ELSE internal_deposit(internal_withdraw(t, sender_id, amount), receiver_id, amount)

internal_transfer(t, sender_id, receiver_id, amount) ==
    IF sender_id = receiver_id
    THEN [t EXCEPT !.err = "Sender and receiver should be different"]
    ELSE IF ~(amount > 0)
    THEN [t EXCEPT !.err = "The amount should be a positive number"]
    ELSE internal_deposit(internal_withdraw(t, sender_id, amount), receiver_id, amount)

\* ----------------------------------------------------------------- Init
NoMetadata ==
    [spec |-> "", name |-> "", symbol |-> "", icon |-> "", reference |-> "",
     reference_hash |-> "", decimals |-> 0]

\* the deployed contract before `new`: no state has been written
Deployed ==
    [initialized |-> FALSE, accounts |-> EmptyMap, total_supply |-> 0,
     metadata |-> NoMetadata, promises |-> {}, next_promise |-> 0]

Init ==
    /\ initialized = Deployed.initialized
    /\ accounts = Deployed.accounts
    /\ total_supply = Deployed.total_supply
    /\ metadata = Deployed.metadata
    /\ promises = Deployed.promises
    /\ next_promise = Deployed.next_promise

\* the receipt of a call that does not panic: the state of its outcome is
\* written back; a call that panics writes nothing and is no step
Receipt(out) ==
    /\ out.err = ""
    /\ initialized' = out.st.initialized
    /\ accounts' = out.st.accounts
    /\ total_supply' = out.st.total_supply
    /\ metadata' = out.st.metadata
    /\ promises' = out.st.promises
    /\ next_promise' = out.st.next_promise

\* ------------------------------------------------- Contract::new (60-75)
DefaultMeta ==
    [spec |-> "ft-1.0.0", name |-> "AV TOKEN", symbol |-> "ASTRO",
     icon |-> SVG_TOKEN_ICON, reference |-> "", reference_hash |-> "",
     decimals |-> 18]

\* new that deposits the supply without registering the owner first
new_unregistered(st, owner_id, supply) ==
    LET t0 == [accounts |-> EmptyMap, total_supply |-> 0, err |-> ""]
        t  == internal_deposit(t0, owner_id, supply)
    IN
    IF st.initialized THEN Panic(st, "Already initialized", 0)
    ELSE IF t.err # "" THEN Panic(st, t.err, 0)
    ELSE Ok([WithToken(st, t) EXCEPT !.initialized = TRUE, !.metadata = DefaultMeta],
            0, FALSE, << >>, 0)

new(st, owner_id, supply) ==
    LET t0 == [accounts |-> EmptyMap, total_supply |-> 0, err |-> ""]
        t  == internal_deposit(internal_register_account(t0, owner_id), owner_id, supply)
    IN
    IF st.initialized THEN Panic(st, "Already initialized", 0)
    ELSE IF t.err # "" THEN Panic(st, t.err, 0)
    ELSE Ok([WithToken(st, t) EXCEPT !.initialized = TRUE, !.metadata = DefaultMeta],
            0, FALSE, << >>, 0)

New ==
    \E owner_id \in AccountIds, supply \in 0 .. MaxSupply :
        Receipt(new(State, owner_id, supply))

\* update_image without the check of the caller
update_image_anyone(st, predecessor, image) ==
    IF ~st.initialized THEN Panic(st, NOT_INITIALIZED, 0)
    ELSE Ok([st EXCEPT !.metadata.icon = image], 0, FALSE, << >>, 0)

\* ------------------------------------------ Contract::update_image (77-86)
update_image(st, predecessor, image) ==
    IF ~st.initialized THEN Panic(st, NOT_INITIALIZED, 0)
    ELSE IF predecessor # ADMIN THEN Panic(st, "Owner's method", 0)
    ELSE Ok([st EXCEPT !.metadata.icon = image], 0, FALSE, << >>, 0)

UpdateImage ==
    \E predecessor \in AccountIds, image \in Images :
        Receipt(update_image(State, predecessor, image))

\* --------------------------------------- impl_fungible_token_core! (97)
ft_transfer(st, predecessor, receiver_id, amount, attached) ==
    LET t == internal_transfer(TokenOf(st), predecessor, receiver_id, amount) IN
    IF ~st.initialized THEN Panic(st, NOT_INITIALIZED, attached)
    ELSE IF attached # ONE_YOCTO THEN Panic(st, ONE_YOCTO_ERR, attached)
    ELSE IF t.err # "" THEN Panic(st, t.err, attached)
    ELSE Ok(WithToken(st, t), 0, FALSE,
            <<LogEntry("Transfer", predecessor, receiver_id, amount)>>, 0)

\* Calls without the one yocto all end in the same panic, whatever their
\* other arguments; one such call per caller is tried.
FtTransfer ==
    \E predecessor \in AccountIds, receiver_id \in AccountIds,
       amount \in Amounts, attached \in {0, ONE_YOCTO} :
        /\ attached # ONE_YOCTO => (receiver_id = ADMIN /\ amount = 1)
        /\ Receipt(ft_transfer(State, predecessor, receiver_id, amount, attached))

\* the promise chain a commit schedules:
\* ft_on_transfer(sender, amount, msg).then(ft_resolve_transfer(sender, receiver, amount))
PromiseOf(st, sender_id, receiver_id, amount) ==
    [id |-> st.next_promise + 1, sender_id |-> sender_id,
     receiver_id |-> receiver_id, amount |-> amount]

\* commit that does not count the promise chain it creates, so that the next
\* chain gets the same id
ft_transfer_call_reuses_id(st, predecessor, receiver_id, amount, attached) ==
    LET t == internal_transfer(TokenOf(st), predecessor, receiver_id, amount)
        p == PromiseOf(st, predecessor, receiver_id, amount)
    IN
    IF ~st.initialized THEN Panic(st, NOT_INITIALIZED, attached)
    ELSE IF attached # ONE_YOCTO THEN Panic(st, ONE_YOCTO_ERR, attached)
    ELSE IF t.err # "" THEN Panic(st, t.err, attached)
    ELSE Ok([WithToken(st, t) EXCEPT !.promises = @ \cup {p}],
            0, FALSE,
            <<LogEntry("Transfer", predecessor, receiver_id, amount)>>, 0)

\* the commit of ft_transfer_call: internal_transfer, then the promise
ft_transfer_call(st, predecessor, receiver_id, amount, attached) ==
    LET t == internal_transfer(TokenOf(st), predecessor, receiver_id, amount)
        p == PromiseOf(st, predecessor, receiver_id, amount)
    IN
    IF ~st.initialized THEN Panic(st, NOT_INITIALIZED, attached)
    ELSE IF attached # ONE_YOCTO THEN Panic(st, ONE_YOCTO_ERR, attached)
    ELSE IF t.err # "" THEN Panic(st, t.err, attached)
    ELSE Ok([WithToken(st, t) EXCEPT !.promises = @ \cup {p}, !.next_promise = p.id],
            0, FALSE,
            <<LogEntry("Transfer", predecessor, receiver_id, amount)>>, 0)

FtTransferCall ==
    /\ next_promise < MaxPromises
    /\ \E predecessor \in AccountIds, receiver_id \in AccountIds,
          amount \in Amounts, attached \in {0, ONE_YOCTO} :
           /\ attached # ONE_YOCTO => (receiver_id = ADMIN /\ amount = 1)
           /\ Receipt(ft_transfer_call(State, predecessor, receiver_id, amount, attached))

\* unused amount without the clamp to the transferred amount
unused_amount_unclamped(result, amount) ==
    IF result.status = "Successful"
    THEN LET parsed == from_slice_U128(result.value) IN
         IF parsed.ok THEN parsed.value ELSE amount
    ELSE amount

\* unused amount that takes a failed notification as nothing unused
unused_amount_failed_zero(result, amount) ==
    IF result.status = "Successful"
    THEN LET parsed == from_slice_U128(result.value) IN
         IF parsed.ok THEN Min(amount, parsed.value) ELSE 0
    ELSE 0

\* the unused amount internal_ft_resolve_transfer reads from promise result 0
unused_amount_of(result, amount) ==
    IF result.status = "Successful"
    THEN LET parsed == from_slice_U128(result.value) IN
         IF parsed.ok THEN Min(amount, parsed.value) ELSE amount
    ELSE amount

\* resolution that reports the whole amount as used after a refund
internal_ft_resolve_transfer_all_used(t, sender_id, receiver_id, amount, result) ==
    LET unused_amount == unused_amount_of(result, amount)
        receiver_balance == get_or_zero(t.accounts, receiver_id)
        refund_amount == Min(receiver_balance, unused_amount)
        debited == insert(t.accounts, receiver_id, receiver_balance - refund_amount)
    IN
    IF unused_amount > 0 /\ receiver_balance > 0
    THEN IF contains_key(debited, sender_id)
         THEN [token |-> [t EXCEPT !.accounts =
                              insert(debited, sender_id, debited[sender_id] + refund_amount)],
               used |-> amount,
               burned |-> 0,
               log |-> <<LogEntry("Refund", receiver_id, sender_id, refund_amount)>>]
         ELSE [token |-> [t EXCEPT !.accounts = debited,
                                   !.total_supply = @ - refund_amount],
               used |-> amount,
               burned |-> refund_amount,
               log |-> <<LogEntry("The account of the sender was deleted", sender_id, "", 0)>>]
    ELSE [token |-> t, used |-> amount, burned |-> 0, log |-> << >>]

\* resolution whose burn branch leaves the total supply as it was
internal_ft_resolve_transfer_supply_kept(t, sender_id, receiver_id, amount, result) ==
    LET unused_amount == unused_amount_of(result, amount)
        receiver_balance == get_or_zero(t.accounts, receiver_id)
        refund_amount == Min(receiver_balance, unused_amount)
        debited == insert(t.accounts, receiver_id, receiver_balance - refund_amount)
    IN
    IF unused_amount > 0 /\ receiver_balance > 0
    THEN IF contains_key(debited, sender_id)
         THEN [token |-> [t EXCEPT !.accounts =
                              insert(debited, sender_id, debited[sender_id] + refund_amount)],
               used |-> amount - refund_amount,
               burned |-> 0,
               log |-> <<LogEntry("Refund", receiver_id, sender_id, refund_amount)>>]
         ELSE [token |-> [t EXCEPT !.accounts = debited],
               used |-> amount,
               burned |-> refund_amount,
               log |-> <<LogEntry("The account of the sender was deleted", sender_id, "", 0)>>]
    ELSE [token |-> t, used |-> amount, burned |-> 0, log |-> << >>]

\* resolution that refunds the sender without looking whether its account
\* still exists
internal_ft_resolve_transfer_recreates_sender(t, sender_id, receiver_id, amount, result) ==
    LET unused_amount == unused_amount_of(result, amount)
        receiver_balance == get_or_zero(t.accounts, receiver_id)
        refund_amount == Min(receiver_balance, unused_amount)
        debited == insert(t.accounts, receiver_id, receiver_balance - refund_amount)
    IN
    IF unused_amount > 0 /\ receiver_balance > 0
    THEN [token |-> [t EXCEPT !.accounts =
                         insert(debited, sender_id,
                                get_or_zero(debited, sender_id) + refund_amount)],
          used |-> amount - refund_amount,
          burned |-> 0,
          log |-> <<LogEntry("Refund", receiver_id, sender_id, refund_amount)>>]
    ELSE [token |-> t, used |-> amount, burned |-> 0, log |-> << >>]

\* resolution that takes the whole unused amount from the receiver, whatever
\* the receiver still holds
internal_ft_resolve_transfer_refund_unclamped(t, sender_id, receiver_id, amount, result) ==
    LET unused_amount == unused_amount_of(result, amount)
        receiver_balance == get_or_zero(t.accounts, receiver_id)
        refund_amount == unused_amount
        debited == insert(t.accounts, receiver_id, receiver_balance - refund_amount)
    IN
    IF unused_amount > 0 /\ receiver_balance > 0
    THEN IF contains_key(debited, sender_id)
         THEN [token |-> [t EXCEPT !.accounts =
                              insert(debited, sender_id, debited[sender_id] + refund_amount)],
               used |-> amount - refund_amount,
               burned |-> 0,
               log |-> <<LogEntry("Refund", receiver_id, sender_id, refund_amount)>>]
         ELSE [token |-> [t EXCEPT !.accounts = debited,
                                   !.total_supply = @ - refund_amount],
               used |-> amount,
               burned |-> refund_amount,
               log |-> <<LogEntry("The account of the sender was deleted", sender_id, "", 0)>>]
    ELSE [token |-> t, used |-> amount, burned |-> 0, log |-> << >>]

\* FungibleToken::internal_ft_resolve_transfer: the new token, the amount
\* used, the amount burned and the log line
internal_ft_resolve_transfer(t, sender_id, receiver_id, amount, result) ==
    LET unused_amount == unused_amount_of(result, amount)
        receiver_balance == get_or_zero(t.accounts, receiver_id)
        refund_amount == Min(receiver_balance, unused_amount)
        debited == insert(t.accounts, receiver_id, receiver_balance - refund_amount)
    IN
    IF unused_amount > 0 /\ receiver_balance > 0
    THEN IF contains_key(debited, sender_id)
         THEN [token |-> [t EXCEPT !.accounts =
                              insert(debited, sender_id, debited[sender_id] + refund_amount)],
               used |-> amount - refund_amount,
               burned |-> 0,
               log |-> <<LogEntry("Refund", receiver_id, sender_id, refund_amount)>>]
         ELSE \* the sender's account was deleted: the tokens are burned
              [token |-> [t EXCEPT !.accounts = debited,
                                   !.total_supply = @ - refund_amount],
               used |-> amount,
               burned |-> refund_amount,
               log |-> <<LogEntry("The account of the sender was deleted", sender_id, "", 0)>>]
    ELSE [token |-> t, used |-> amount, burned |-> 0, log |-> << >>]

\* on_tokens_burned that leaves no log record
on_tokens_burned_silent(account_id, amount) == << >>

\* Contract::on_tokens_burned (92-94)
on_tokens_burned(account_id, amount) == <<LogEntry("Account burned", account_id, "", amount)>>

\* callback that accounts the refund and leaves the promise chain pending
ft_resolve_transfer_keeps_promise(st, p, result) ==
    LET r == internal_ft_resolve_transfer(TokenOf(st), p.sender_id, p.receiver_id,
                                          p.amount, result)
    IN
    Ok(WithToken(st, r.token),
       r.used, FALSE,
       IF r.burned > 0 THEN r.log \o on_tokens_burned(p.sender_id, r.burned) ELSE r.log,
       0)

\* The callback of the macro: #[private], run by the runtime once the
\* receiver's ft_on_transfer has finished, with its outcome as promise result 0.
ft_resolve_transfer(st, p, result) ==
    LET r == internal_ft_resolve_transfer(TokenOf(st), p.sender_id, p.receiver_id,
                                          p.amount, result)
    IN
    Ok([WithToken(st, r.token) EXCEPT !.promises = @ \ {p}],
       r.used, FALSE,
       IF r.burned > 0 THEN r.log \o on_tokens_burned(p.sender_id, r.burned) ELSE r.log,
       0)

\* the callback of promise chain id runs, with any outcome of the
\* notification; the runtime has then consumed the chain
ResolveChain(id) ==
    \E p \in promises :
        /\ p.id = id
        /\ promises' = promises \ {p}
        /\ \E result \in PromiseResults :
            Receipt(ft_resolve_transfer(State, p, result))

FtResolveTransfer == \E id \in 1 .. MaxPromises : ResolveChain(id)

\* ft_resolve_transfer called as a method by an account: #[private] admits
\* the contract's own account only, and no caller is the contract
ft_resolve_transfer_private(st, predecessor, sender_id, receiver_id, amount) ==
    Panic(st, "Method ft_resolve_transfer is private", 0)

\* the call, tried with the arguments of a pending transfer, is refused
FtResolveTransferPrivate ==
    \E predecessor \in AccountIds, p \in promises :
        /\ ft_resolve_transfer_private(State, predecessor, p.sender_id,
                                       p.receiver_id, p.amount).err # ""
        /\ UNCHANGED vars

\* ------------------------------------ impl_fungible_token_storage! (98)
\* account_storage_usage * env::storage_byte_cost()
storage_balance_bounds_min == StorageMin

\* storage_deposit that registers whatever amount is attached
storage_deposit_no_minimum(st, predecessor, account_id_arg, registration_only, attached) ==
    LET account_id == IF account_id_arg = None THEN predecessor ELSE account_id_arg
        min_balance == storage_balance_bounds_min
        t == internal_register_account(TokenOf(st), account_id)
    IN
    IF ~st.initialized THEN Panic(st, NOT_INITIALIZED, attached)
    ELSE IF contains_key(st.accounts, account_id)
    THEN Ok(st, min_balance, FALSE,
            <<LogEntry("The account is already registered, refunding the deposit", "", "", 0)>>,
            attached)
    ELSE Ok(WithToken(st, t), min_balance, FALSE, << >>,
            IF attached > min_balance THEN attached - min_balance ELSE 0)

\* storage_deposit that registers again an account that is already registered
storage_deposit_registers_again(st, predecessor, account_id_arg, registration_only, attached) ==
    LET account_id == IF account_id_arg = None THEN predecessor ELSE account_id_arg
        min_balance == storage_balance_bounds_min
    IN
    IF ~st.initialized THEN Panic(st, NOT_INITIALIZED, attached)
    ELSE IF attached < min_balance
    THEN Panic(st, "The attached deposit is less than the minimum storage balance", attached)
    ELSE Ok([st EXCEPT !.accounts = insert(@, account_id, 0)], min_balance, FALSE, << >>,
            attached - min_balance)

\* registration_only does not affect the vanilla fungible token
storage_deposit(st, predecessor, account_id_arg, registration_only, attached) ==
    LET account_id == IF account_id_arg = None THEN predecessor ELSE account_id_arg
        min_balance == storage_balance_bounds_min
        t == internal_register_account(TokenOf(st), account_id)
    IN
    IF ~st.initialized THEN Panic(st, NOT_INITIALIZED, attached)
    ELSE IF contains_key(st.accounts, account_id)
    THEN Ok(st, min_balance, FALSE,
            <<LogEntry("The account is already registered, refunding the deposit", "", "", 0)>>,
            attached)
    ELSE IF attached < min_balance
    THEN Panic(st, "The attached deposit is less than the minimum storage balance", attached)
    ELSE Ok(WithToken(st, t), min_balance, FALSE, << >>, attached - min_balance)

StorageDeposit ==
    \E predecessor \in AccountIds, account_id_arg \in AccountIds \cup {None},
       registration_only \in BOOLEAN, attached \in Deposits :
        /\ registration_only => account_id_arg = None
        /\ Receipt(storage_deposit(State, predecessor, account_id_arg, registration_only, attached))

storage_withdraw(st, predecessor, amount_arg, attached) ==
    IF ~st.initialized THEN Panic(st, NOT_INITIALIZED, attached)
    ELSE IF attached # ONE_YOCTO THEN Panic(st, ONE_YOCTO_ERR, attached)
    ELSE IF ~contains_key(st.accounts, predecessor)
    THEN Panic(st, NOT_REGISTERED, attached)
    ELSE IF amount_arg # NoAmount /\ amount_arg > 0
    THEN Panic(st, "The amount is greater than the available storage balance", attached)
    ELSE Ok(st, storage_balance_bounds_min, FALSE, << >>, 0)

StorageWithdraw ==
    \E predecessor \in AccountIds, amount_arg \in {NoAmount, 0, 1},
       attached \in {0, ONE_YOCTO} :
        /\ attached # ONE_YOCTO => amount_arg = NoAmount
        /\ Receipt(storage_withdraw(State, predecessor, amount_arg, attached))

\* Contract::on_account_closed (88-90)
on_account_closed(account_id, balance) == <<LogEntry("Closed", account_id, "", balance)>>

\* storage_unregister that closes the account whatever `force` says
storage_unregister_force_ignored(st, predecessor, force_arg, attached) ==
    LET balance == get_or_zero(st.accounts, predecessor) IN
    IF ~st.initialized THEN Panic(st, NOT_INITIALIZED, attached)
    ELSE IF attached # ONE_YOCTO THEN Panic(st, ONE_YOCTO_ERR, attached)
    ELSE IF ~contains_key(st.accounts, predecessor)
    THEN Ok(st, 0, FALSE, <<LogEntry(NOT_REGISTERED, predecessor, "", 0)>>, 0)
    ELSE Ok([st EXCEPT !.accounts = remove(@, predecessor),
                       !.total_supply = @ - balance],
            0, TRUE, on_account_closed(predecessor, balance),
            storage_balance_bounds_min + 1)

\* storage_unregister that closes the account and keeps its storage deposit
storage_unregister_no_refund(st, predecessor, force_arg, attached) ==
    LET force == force_arg = "true"
        balance == get_or_zero(st.accounts, predecessor)
    IN
    IF ~st.initialized THEN Panic(st, NOT_INITIALIZED, attached)
    ELSE IF attached # ONE_YOCTO THEN Panic(st, ONE_YOCTO_ERR, attached)
    ELSE IF ~contains_key(st.accounts, predecessor)
    THEN Ok(st, 0, FALSE, <<LogEntry(NOT_REGISTERED, predecessor, "", 0)>>, 0)
    ELSE IF balance = 0 \/ force
    THEN Ok([st EXCEPT !.accounts = remove(@, predecessor),
                       !.total_supply = @ - balance],
            0, TRUE, on_account_closed(predecessor, balance), 0)
    ELSE Panic(st, "Can't unregister the account with the positive balance without force",
               attached)

\* storage_unregister of the macro: internal_storage_unregister, then
\* on_account_closed when an account was removed
storage_unregister(st, predecessor, force_arg, attached) ==
    LET force == force_arg = "true"      \* force.unwrap_or(false)
        balance == get_or_zero(st.accounts, predecessor)
    IN
    IF ~st.initialized THEN Panic(st, NOT_INITIALIZED, attached)
    ELSE IF attached # ONE_YOCTO THEN Panic(st, ONE_YOCTO_ERR, attached)
    ELSE IF ~contains_key(st.accounts, predecessor)
    THEN Ok(st, 0, FALSE, <<LogEntry(NOT_REGISTERED, predecessor, "", 0)>>, 0)
    ELSE IF balance = 0 \/ force
    THEN Ok([st EXCEPT !.accounts = remove(@, predecessor),
                       !.total_supply = @ - balance],
            0, TRUE, on_account_closed(predecessor, balance),
            storage_balance_bounds_min + 1)
    ELSE Panic(st, "Can't unregister the account with the positive balance without force",
               attached)

StorageUnregister ==
    \E predecessor \in AccountIds, force_arg \in {None, "true", "false"},
       attached \in {0, ONE_YOCTO} :
        /\ attached # ONE_YOCTO => force_arg = None
        /\ Receipt(storage_unregister(State, predecessor, force_arg, attached))

\* ------------------------------------------------------------------ Next
Next ==
    \/ New
    \/ UpdateImage
    \/ FtTransfer
    \/ FtTransferCall
    \/ FtResolveTransfer
    \/ FtResolveTransferPrivate
    \/ StorageDeposit
    \/ StorageWithdraw
    \/ StorageUnregister

Spec == Init /\ [][Next]_vars

\* The runtime executes every receipt it has scheduled: the callback of a
\* promise chain runs once the notification has finished, failed or could
\* not be delivered.
FairSpec == Spec /\ \A id \in 1 .. MaxPromises : WF_vars(ResolveChain(id))

\* ================================================================ claims
\* A claim about what a call does is stated over the outcome the handler
\* computes from the current state, in every reachable state: that covers
\* the call at every point of every interleaving, with its return value,
\* its log and the deposit it sends back.

\* C1: in every reachable state, pending notifications or not, the sum of
\* ft_balance_of(a) over all accounts equals ft_total_supply.
C1_SupplyConservation ==
    SumOver([a \in AccountIds |-> ft_balance_of(a)], AccountIds) = ft_total_supply

\* C1 witness: tokens spread over two accounts while a notification is pending
C1_Witness ==
    /\ promises # {}
    /\ Cardinality({a \in AccountIds : ft_balance_of(a) > 0}) = 2
    /\ ft_total_supply = MaxSupply

\* C2 as stated: once initialized, no step changes ft_total_supply.
C2_TotalSupplyImmutable ==
    [][initialized => total_supply' = total_supply]_vars

\* C2 amended: once initialized, no call makes ft_total_supply grow, and only
\* two calls make it drop: a storage_unregister that closes an account (by
\* the balance the account held, as logged) and an ft_resolve_transfer that
\* burns because the sender's account is gone (by the amount logged as
\* burned); every other call leaves it unchanged.
C2_TotalSupplyOnlyBurns ==
    initialized =>
        /\ \A owner_id \in AccountIds, supply \in 0 .. MaxSupply :
            new(State, owner_id, supply).st.total_supply = total_supply
        /\ \A predecessor \in AccountIds, image \in Images :
            update_image(State, predecessor, image).st.total_supply = total_supply
        /\ \A predecessor \in AccountIds, receiver_id \in AccountIds, amount \in Amounts :
            /\ ft_transfer(State, predecessor, receiver_id, amount, ONE_YOCTO)
                    .st.total_supply = total_supply
            /\ ft_transfer_call(State, predecessor, receiver_id, amount, ONE_YOCTO)
                    .st.total_supply = total_supply
        /\ \A predecessor \in AccountIds :
            /\ ft_transfer(State, predecessor, ADMIN, 1, 0).st.total_supply = total_supply
            /\ ft_transfer_call(State, predecessor, ADMIN, 1, 0).st.total_supply = total_supply
        /\ \A predecessor \in AccountIds, account_id_arg \in AccountIds \cup {None},
              attached \in Deposits :
            storage_deposit(State, predecessor, account_id_arg, account_id_arg = None, attached)
                .st.total_supply = total_supply
        /\ \A predecessor \in AccountIds, amount_arg \in {NoAmount, 0, 1},
              attached \in {0, ONE_YOCTO} :
            storage_withdraw(State, predecessor, amount_arg, attached)
                .st.total_supply = total_supply
        /\ \A predecessor \in AccountIds, force_arg \in {None, "true", "false"},
              attached \in {0, ONE_YOCTO} :
            LET o == storage_unregister(State, predecessor, force_arg, attached)
                drop == total_supply - o.st.total_supply
            IN
            /\ drop >= 0
            /\ drop > 0 =>
                /\ o.flag
                /\ drop = ft_balance_of(predecessor)
                /\ o.st.accounts = remove(accounts, predecessor)
                /\ o.log = <<LogEntry("Closed", predecessor, "", drop)>>
        /\ \A p \in promises, result \in PromiseResults :
            LET o == ft_resolve_transfer(State, p, result)
                drop == total_supply - o.st.total_supply
            IN
            /\ drop >= 0
            /\ drop > 0 =>
                /\ ~registered(State, p.sender_id)
                /\ o.log[Len(o.log)] = LogEntry("Account burned", p.sender_id, "", drop)

\* C2 witness: the supply is below the amount of a transfer that was
\* committed and is still pending: tokens were burned since the commit
C2_Witness ==
    /\ initialized
    /\ \E p \in promises : ft_total_supply < p.amount

\* C3: right after `new` for owner O with total supply S, ft_total_supply is
\* S, ft_balance_of(O) is S, O is registered and every other account has
\* balance 0 (and is not registered).
C3_Initialization ==
    ~initialized =>
        \A O \in AccountIds, S \in 0 .. MaxSupply :
            LET o == new(State, O, S) IN
            /\ o.err = ""
            /\ o.st.initialized
            /\ o.st.total_supply = S
            /\ balance_of(o.st, O) = S
            /\ registered(o.st, O)
            /\ \A a \in AccountIds \ {O} : balance_of(o.st, a) = 0 /\ ~registered(o.st, a)

\* C3 witness: the state `new` leaves when called for alice with MaxSupply
C3_Witness ==
    /\ State = new(Deployed, "alice", MaxSupply).st
    /\ ft_total_supply = MaxSupply
    /\ ft_balance_of("alice") = MaxSupply

\* C4: an ft_transfer with receiver registered, receiver # sender and
\* 0 < amount <= balance of the sender succeeds; a successful ft_transfer
\* moves exactly amount from the sender to the receiver in a single step and
\* leaves every other balance, the registered accounts, the total supply and
\* the pending notifications unchanged.
C4_TransferPre(sender, receiver, amount) ==
    /\ initialized
    /\ registered(State, receiver)
    /\ receiver # sender
    /\ 0 < amount
    /\ amount <= ft_balance_of(sender)

C4_TransferEffect(st, st2, sender, receiver, amount) ==
    /\ balance_of(st2, sender) = balance_of(st, sender) - amount
    /\ balance_of(st2, receiver) = balance_of(st, receiver) + amount
    /\ \A a \in AccountIds \ {sender, receiver} : balance_of(st2, a) = balance_of(st, a)
    /\ DOMAIN st2.accounts = DOMAIN st.accounts
    /\ st2.total_supply = st.total_supply

C4_Transfer ==
    \A sender \in AccountIds, receiver \in AccountIds, amount \in Amounts :
        LET o == ft_transfer(State, sender, receiver, amount, ONE_YOCTO) IN
        /\ C4_TransferPre(sender, receiver, amount) => o.err = ""
        /\ o.err = "" =>
            /\ C4_TransferPre(sender, receiver, amount)
            /\ C4_TransferEffect(State, o.st, sender, receiver, amount)
            /\ o.st.promises = promises
            /\ o.st.metadata = metadata
            /\ amount = ft_balance_of(sender) => balance_of(o.st, sender) = 0

\* C4 witness: a sender holding MaxSupply transfers all of it to a
\* registered receiver holding nothing: the sender is left at 0
C4_Witness ==
    \E sender \in AccountIds, receiver \in AccountIds :
        LET o == ft_transfer(State, sender, receiver, MaxSupply, ONE_YOCTO) IN
        /\ C4_TransferPre(sender, receiver, MaxSupply)
        /\ ft_balance_of(receiver) = 0
        /\ o.err = ""
        /\ o.log = <<LogEntry("Transfer", sender, receiver, MaxSupply)>>
        /\ balance_of(o.st, sender) = 0
        /\ balance_of(o.st, receiver) = MaxSupply

\* C5: ft_transfer and the commit of ft_transfer_call fail when sender =
\* receiver, when amount = 0, when the receiver is not registered and when
\* amount exceeds the sender's balance; a failed call leaves the whole
\* contract state as it was and schedules no notification.
C5_Failing(sender, receiver, amount) ==
    \/ sender = receiver
    \/ amount = 0
    \/ ~registered(State, receiver)
    \/ amount > ft_balance_of(sender)

C5_Message(sender, receiver, amount) ==
    IF sender = receiver THEN "Sender and receiver should be different"
    ELSE IF amount = 0 THEN "The amount should be a positive number"
    ELSE IF ~registered(State, sender) THEN NOT_REGISTERED
    ELSE IF amount > ft_balance_of(sender) THEN "The account doesn't have enough balance"
    ELSE NOT_REGISTERED

C5_FailedOutcome(o, sender, receiver, amount) ==
    C5_Failing(sender, receiver, amount) =>
        /\ o.err = C5_Message(sender, receiver, amount)
        /\ o.st = State

C6_PartialDecline ==
    \A sender \in AccountIds, receiver \in AccountIds, amount \in Amounts :
        LET o1 == ft_transfer_call(State, sender, receiver, amount, ONE_YOCTO)
            p  == PromiseOf(State, sender, receiver, amount)
        IN
        (initialized /\ o1.err = "") =>
            /\ p \in o1.st.promises
            /\ \A n \in Declared :
                LET o2 == ft_resolve_transfer(o1.st, p, Successful(to_json_U128(n)))
                    u  == IF n > amount THEN amount ELSE n
                IN
                /\ o2.err = ""
                /\ balance_of(o2.st, receiver) = ft_balance_of(receiver) + amount - u
                /\ balance_of(o2.st, sender) = ft_balance_of(sender) - amount + u
                /\ o2.ret = amount - u
                /\ p \notin o2.st.promises

\* C6 witness: a transfer of 2 has been committed and nothing has touched
\* the two accounts since; resolved with 1 declared unused, 1 is refunded
\* and 1 kept, and resolved with 10 declared unused, all of it is refunded
C6_Witness ==
    \E p \in promises :
        LET o == ft_resolve_transfer(State, p, Successful(to_json_U128(1)))
            o10 == ft_resolve_transfer(State, p, Successful(to_json_U128(10)))
        IN
        /\ p.amount = 2
        /\ ft_balance_of(p.receiver_id) = 2
        /\ ft_balance_of(p.sender_id) = 0
        /\ o.ret = 1
        /\ o.log = <<LogEntry("Refund", p.receiver_id, p.sender_id, 1)>>
        /\ balance_of(o.st, p.receiver_id) = 1
        /\ balance_of(o.st, p.sender_id) = 1
        /\ o10.ret = 0
        /\ balance_of(o10.st, p.sender_id) = 2

\* C7 as stated: the value ft_resolve_transfer returns is the amount minus
\* what the resolution took back from the receiver (refunded or burned).
C7_ReturnsNetKept ==
    \A p \in promises, result \in PromiseResults :
        LET o == ft_resolve_transfer(State, p, result) IN
        o.ret = p.amount - (ft_balance_of(p.receiver_id) - balance_of(o.st, p.receiver_id))

\* C7 amended: the value ft_resolve_transfer returns is the amount minus what
\* the resolution refunded to the sender; tokens the resolution burns because
\* the sender's account is gone count as used, so it then returns the whole
\* amount although the receiver kept less.
C7_ReturnsAmountUsed ==
    \A p \in promises, result \in PromiseResults :
        LET o == ft_resolve_transfer(State, p, result)
            refunded == balance_of(o.st, p.sender_id) - ft_balance_of(p.sender_id)
            taken == ft_balance_of(p.receiver_id) - balance_of(o.st, p.receiver_id)
            burned == total_supply - o.st.total_supply
        IN
        /\ o.err = ""
        /\ o.ret = p.amount - refunded
        /\ burned > 0 => (o.ret = p.amount /\ taken = burned /\ refunded = 0)
        /\ burned = 0 => o.ret = p.amount - taken

\* C7 witness: the sender of a pending transfer has closed its account and
\* the receiver still holds tokens: the resolution of a failed notification
\* burns them and returns the whole amount
C7_Witness ==
    \E p \in promises :
        LET o == ft_resolve_transfer(State, p, Failed) IN
        /\ ~registered(State, p.sender_id)
        /\ ft_balance_of(p.receiver_id) > 0
        /\ o.ret = p.amount
        /\ o.ret > 0
        /\ o.st.total_supply < total_supply
        /\ Len(o.log) = 2
        /\ o.log[2].event = "Account burned"

\* C8: for every resolution of a pending ft_transfer_call of amount A, under
\* every interleaving, refunded-to-sender + retained-by-receiver + burned = A,
\* the sender is never credited more than A, no other balance moves, and the
\* sum of the balances drops by exactly the burned amount, which is logged.
C8_PerTransferAccounting ==
    \A p \in promises, result \in PromiseResults :
        LET o == ft_resolve_transfer(State, p, result)
            refunded == balance_of(o.st, p.sender_id) - ft_balance_of(p.sender_id)
            taken == ft_balance_of(p.receiver_id) - balance_of(o.st, p.receiver_id)
            retained == p.amount - taken
            burned == total_supply - o.st.total_supply
            burn_logged ==
                \E i \in 1 .. Len(o.log) :
                    o.log[i] = LogEntry("Account burned", p.sender_id, "", burned)
        IN
        /\ refunded >= 0 /\ retained >= 0 /\ burned >= 0
        /\ refunded + retained + burned = p.amount
        /\ refunded <= p.amount
        /\ \A a \in AccountIds \ {p.sender_id, p.receiver_id} :
                balance_of(o.st, a) = ft_balance_of(a)
        /\ DOMAIN o.st.accounts = DOMAIN accounts
        /\ SumBalances(o.st.accounts) = SumBalances(accounts) - burned
        /\ burned > 0 <=> burn_logged
        /\ o.st.promises = promises \ {p}

\* C8 witness: the receiver has spent part of a pending transfer of 2; the
\* failed notification refunds the 1 that is left and the 1 that was spent
\* stays accounted as retained
C8_Witness ==
    \E p \in promises :
        LET o == ft_resolve_transfer(State, p, Failed) IN
        /\ p.amount = 2
        /\ registered(State, p.sender_id)
        /\ ft_balance_of(p.receiver_id) = 1
        /\ o.ret = 1
        /\ o.log = <<LogEntry("Refund", p.receiver_id, p.sender_id, 1)>>
        /\ balance_of(o.st, p.receiver_id) = 0

\* C9: a notification outcome that signals failure (Failed, or a value that
\* is no U128) is accounted exactly as a declared unused amount equal to the
\* whole transfer: the resolution does not fail, and with no call in between
\* both balances are back at their values before the ft_transfer_call.
FailureResults == {Failed} \cup {Successful(v) : v \in BadValues}

C9_FailureIsFullDecline ==
    initialized =>
        /\ \A p \in promises, result \in FailureResults :
            LET o == ft_resolve_transfer(State, p, result) IN
            /\ o.err = ""
            /\ o = ft_resolve_transfer(State, p, Successful(to_json_U128(p.amount)))
        /\ \A sender \in AccountIds, receiver \in AccountIds, amount \in Amounts :
            LET o1 == ft_transfer_call(State, sender, receiver, amount, ONE_YOCTO) IN
            o1.err = "" =>
                \A result \in FailureResults :
                    LET o2 == ft_resolve_transfer(o1.st,
                                                  PromiseOf(State, sender, receiver, amount),
                                                  result)
                    IN
                    /\ o2.err = ""
                    /\ o2.ret = 0
                    /\ balance_of(o2.st, sender) = ft_balance_of(sender)
                    /\ balance_of(o2.st, receiver) = ft_balance_of(receiver)
                    /\ o2.st.accounts = accounts
                    /\ o2.st.total_supply = total_supply

\* C9 witness: a transfer of the whole supply is pending and untouched; each
\* failure outcome of its notification refunds all of it to the sender
C9_Witness ==
    \E p \in promises :
        /\ p.amount = MaxSupply
        /\ ft_balance_of(p.sender_id) = 0
        /\ registered(State, p.sender_id)
        /\ \A result \in FailureResults :
            LET o == ft_resolve_transfer(State, p, result) IN
            /\ o.ret = 0
            /\ o.log = <<LogEntry("Refund", p.receiver_id, p.sender_id, MaxSupply)>>
            /\ balance_of(o.st, p.sender_id) = MaxSupply

\* C10: storage_deposit for an unregistered account with less than
\* storage_balance_bounds().min attached fails: the account stays
\* unregistered, nothing in the contract state changes and the whole attached
\* amount goes back to the caller.
INSUFFICIENT_DEPOSIT == "The attached deposit is less than the minimum storage balance"

C10_InsufficientDeposit ==
    initialized =>
        \A predecessor \in AccountIds, account_id_arg \in AccountIds \cup {None},
           registration_only \in BOOLEAN, attached \in Deposits :
            LET account_id == IF account_id_arg = None THEN predecessor ELSE account_id_arg
                o == storage_deposit(State, predecessor, account_id_arg,
                                     registration_only, attached)
            IN
            (~registered(State, account_id) /\ attached < storage_balance_bounds_min) =>
                /\ o.err = INSUFFICIENT_DEPOSIT
                /\ o.st = State
                /\ ~registered(o.st, account_id)
                /\ o.returned = attached

\* C10 witness: an account that is not registered deposits one unit less
\* than the minimum while others hold tokens: refused and sent back in full
C10_Witness ==
    /\ initialized
    /\ ft_total_supply > 0
    /\ \E a \in AccountIds :
        LET o == storage_deposit(State, a, None, FALSE, storage_balance_bounds_min - 1) IN
        /\ ~registered(State, a)
        /\ storage_balance_bounds_min - 1 > 0
        /\ o.err = INSUFFICIENT_DEPOSIT
        /\ o.returned = storage_balance_bounds_min - 1
        /\ o.st = State

\* C11: storage_deposit with at least the minimum attached for an account
\* that is not registered registers it with balance 0 and touches nothing
\* else; storage_deposit for an account that is registered, with any amount
\* attached and repeated, succeeds, leaves the whole contract state as it
\* was and sends the full attached amount back to the caller.
C11_RegistrationIdempotent ==
    initialized =>
        \A predecessor \in AccountIds, account_id_arg \in AccountIds \cup {None},
           registration_only \in BOOLEAN, attached \in Deposits :
            LET account_id == IF account_id_arg = None THEN predecessor ELSE account_id_arg
                o == storage_deposit(State, predecessor, account_id_arg,
                                     registration_only, attached)
                again == storage_deposit(o.st, predecessor, account_id_arg,
                                         registration_only, attached)
            IN
            /\ (~registered(State, account_id) /\ attached >= storage_balance_bounds_min) =>
                /\ o.err = ""
                /\ o.st.accounts = insert(accounts, account_id, 0)
                /\ balance_of(o.st, account_id) = 0
                /\ o.st.total_supply = total_supply
                /\ o.returned = attached - storage_balance_bounds_min
                /\ again.err = ""
                /\ again.st = o.st
                /\ again.returned = attached
            /\ registered(State, account_id) =>
                /\ o.err = ""
                /\ o.st = State
                /\ balance_of(o.st, account_id) = ft_balance_of(account_id)
                /\ o.returned = attached
                /\ again = o

\* C11 witness: an account holding tokens deposits again, with more than the
\* minimum attached: its balance stays and the deposit comes back in full;
\* another account, not registered, is registered with balance 0
C11_Witness ==
    \E a \in AccountIds, b \in AccountIds :
        LET o == storage_deposit(State, a, None, FALSE, StorageMin + 1)
            ob == storage_deposit(State, a, b, FALSE, StorageMin)
        IN
        /\ initialized
        /\ ft_balance_of(a) > 0
        /\ ~registered(State, b)
        /\ o.err = ""
        /\ o.returned = StorageMin + 1
        /\ balance_of(o.st, a) = ft_balance_of(a)
        /\ ob.err = ""
        /\ registered(ob.st, b)
        /\ balance_of(ob.st, b) = 0

\* C12: storage_unregister without force (false or absent) by an account
\* with a nonzero balance fails and leaves the whole state, the total supply
\* included, as it was; with balance zero it removes the account and returns
\* true; by a caller that is not registered it returns false and changes
\* nothing, with or without force.
POSITIVE_BALANCE == "Can't unregister the account with the positive balance without force"

C12_NoRemovalWithoutForce ==
    initialized =>
        \A predecessor \in AccountIds, force_arg \in {None, "true", "false"} :
            LET o == storage_unregister(State, predecessor, force_arg, ONE_YOCTO) IN
            /\ (force_arg # "true" /\ ft_balance_of(predecessor) > 0) =>
                /\ o.err = POSITIVE_BALANCE
                /\ o.st = State
                /\ registered(o.st, predecessor)
            /\ (force_arg # "true" /\ registered(State, predecessor)
                    /\ ft_balance_of(predecessor) = 0) =>
                /\ o.err = ""
                /\ o.flag
                /\ o.st.accounts = remove(accounts, predecessor)
                /\ o.st.total_supply = total_supply
            /\ ~registered(State, predecessor) =>
                /\ o.err = ""
                /\ ~o.flag
                /\ o.st = State

\* C12 witness: one account holds tokens, one is registered with balance
\* zero and one is not registered: refused, removed, and false
C12_Witness ==
    \E a \in AccountIds, b \in AccountIds, c \in AccountIds :
        /\ initialized
        /\ ft_balance_of(a) > 0
        /\ registered(State, b) /\ ft_balance_of(b) = 0
        /\ ~registered(State, c)
        /\ storage_unregister(State, a, "false", ONE_YOCTO).err = POSITIVE_BALANCE
        /\ storage_unregister(State, a, None, ONE_YOCTO).err = POSITIVE_BALANCE
        /\ storage_unregister(State, b, None, ONE_YOCTO).flag
        /\ ~registered(storage_unregister(State, b, None, ONE_YOCTO).st, b)
        /\ ~storage_unregister(State, c, None, ONE_YOCTO).flag

\* C13: storage_unregister with force by a registered account holding b > 0
\* removes the account, lowers the total supply by exactly b, changes no
\* other balance, logs the account with b, and sends the storage deposit
\* (with the attached yocto) to the caller; the account's balance is then 0.
C13_ForceUnregisterBurns ==
    initialized =>
        \A predecessor \in AccountIds :
            LET o == storage_unregister(State, predecessor, "true", ONE_YOCTO)
                b == ft_balance_of(predecessor)
            IN
            b > 0 =>
                /\ o.err = ""
                /\ o.flag
                /\ ~registered(o.st, predecessor)
                /\ balance_of(o.st, predecessor) = 0
                /\ o.st.accounts = remove(accounts, predecessor)
                /\ \A a \in AccountIds \ {predecessor} :
                        balance_of(o.st, a) = ft_balance_of(a)
                /\ o.st.total_supply = total_supply - b
                /\ o.log = <<LogEntry("Closed", predecessor, "", b)>>
                /\ o.returned = storage_balance_bounds_min + ONE_YOCTO
                /\ o.st.promises = promises
                /\ o.st.metadata = metadata

\* C13 witness: two accounts hold tokens and one of them closes its account
\* with force: its tokens are burned and the other balance stays
C13_Witness ==
    \E a \in AccountIds, other \in AccountIds :
        LET o == storage_unregister(State, a, "true", ONE_YOCTO) IN
        /\ initialized
        /\ other # a
        /\ ft_balance_of(a) > 0
        /\ ft_balance_of(other) > 0
        /\ o.flag
        /\ o.st.total_supply = ft_balance_of(other)
        /\ o.log = <<LogEntry("Closed", a, "", ft_balance_of(a))>>

\* C14: in every reachable state an account with a nonzero balance is
\* registered, and ft_balance_of an account that is not registered is 0; no
\* call creates an entry for an account that is not registered, except the
\* storage_deposit that registers it: transfers to it fail, and the
\* resolution of a pending ft_transfer_call whose sender or receiver was
\* unregistered meanwhile leaves that account without entry and at 0.
C14_RegistrationGatesLedger ==
    /\ \A a \in AccountIds :
        /\ ft_balance_of(a) # 0 => registered(State, a)
        /\ ~registered(State, a) => ft_balance_of(a) = 0
    /\ DOMAIN accounts \subseteq AccountIds
    /\ initialized =>
        /\ \A predecessor \in AccountIds, receiver_id \in AccountIds, amount \in Amounts :
            LET o1 == ft_transfer(State, predecessor, receiver_id, amount, ONE_YOCTO)
                o2 == ft_transfer_call(State, predecessor, receiver_id, amount, ONE_YOCTO)
            IN
            /\ DOMAIN o1.st.accounts = DOMAIN accounts
            /\ DOMAIN o2.st.accounts = DOMAIN accounts
            /\ (~registered(State, receiver_id) \/ ~registered(State, predecessor)) =>
                    (o1.err # "" /\ o2.err # "")
        /\ \A p \in promises, result \in PromiseResults :
            LET o == ft_resolve_transfer(State, p, result) IN
            /\ o.err = ""
            /\ DOMAIN o.st.accounts = DOMAIN accounts
            /\ \A a \in AccountIds : ~registered(State, a) => balance_of(o.st, a) = 0
        /\ \A predecessor \in AccountIds, account_id_arg \in AccountIds \cup {None},
              attached \in Deposits :
            LET account_id == IF account_id_arg = None THEN predecessor ELSE account_id_arg
                o == storage_deposit(State, predecessor, account_id_arg, FALSE, attached)
            IN
            /\ DOMAIN o.st.accounts \subseteq DOMAIN accounts \cup {account_id}
            /\ \A a \in AccountIds : ~registered(State, a) => balance_of(o.st, a) = 0
        /\ \A predecessor \in AccountIds, force_arg \in {None, "true", "false"} :
            DOMAIN storage_unregister(State, predecessor, force_arg, ONE_YOCTO).st.accounts
                \subseteq DOMAIN accounts
        /\ \A predecessor \in AccountIds :
            /\ update_image(State, predecessor, "img1").st.accounts = accounts
            /\ storage_withdraw(State, predecessor, NoAmount, ONE_YOCTO).st.accounts = accounts

\* C14 witness: the sender of a pending transfer has closed its account while
\* the receiver holds the tokens: whatever the notification answers, the
\* resolution gives the sender no entry and no balance
C14_Witness ==
    \E p \in promises :
        /\ ~registered(State, p.sender_id)
        /\ ft_balance_of(p.sender_id) = 0
        /\ ft_balance_of(p.receiver_id) = p.amount
        /\ p.amount > 0
        /\ ft_transfer(State, p.receiver_id, p.sender_id, 1, ONE_YOCTO).err = NOT_REGISTERED
        /\ \A result \in PromiseResults :
            LET o == ft_resolve_transfer(State, p, result) IN
            /\ ~registered(o.st, p.sender_id)
            /\ balance_of(o.st, p.sender_id) = 0

\* C15: update_image by the fixed administrative account replaces the icon
\* and nothing else in the contract state; by any other account it fails
\* and changes nothing; in every reachable state after initialization spec,
\* name, symbol, decimals, reference and reference_hash of ft_metadata are
\* the values given at initialization.
C15_IconUpdate ==
    initialized =>
        /\ [ft_metadata EXCEPT !.icon = DefaultMeta.icon] = DefaultMeta
        /\ ft_metadata.icon \in Images \cup {SVG_TOKEN_ICON}
        /\ \A predecessor \in AccountIds, image \in Images \cup {SVG_TOKEN_ICON} :
            LET o == update_image(State, predecessor, image) IN
            IF predecessor = ADMIN
            THEN /\ o.err = ""
                 /\ o.st.metadata = [metadata EXCEPT !.icon = image]
                 /\ o.st = [State EXCEPT !.metadata = o.st.metadata]
            ELSE /\ o.err = "Owner's method"
                 /\ o.st = State

\* C15 witness: the administrator has replaced the icon while tokens are in
\* circulation and a notification is pending; another caller is refused
C15_Witness ==
    /\ initialized
    /\ ft_metadata.icon = "img1"
    /\ ft_metadata.name = "AV TOKEN"
    /\ ft_total_supply > 0
    /\ promises # {}
    /\ update_image(State, "alice", SVG_TOKEN_ICON).err = "Owner's method"

\* C16: in every reachable state every balance, and the total supply, is at
\* least 0; a withdrawal of more than the balance is rejected: the transfer
\* fails and leaves the state as it was.
NOT_ENOUGH_BALANCE == "The account doesn't have enough balance"

C16_NoNegativeBalance ==
    /\ \A a \in AccountIds : ft_balance_of(a) >= 0
    /\ \A a \in DOMAIN accounts : accounts[a] >= 0
    /\ ft_total_supply >= 0
    /\ \A a \in DOMAIN accounts, amount \in Amounts :
        LET t == internal_withdraw(TokenOf(State), a, amount) IN
        IF amount > accounts[a]
        THEN t.err = NOT_ENOUGH_BALANCE /\ t.accounts = accounts
        ELSE t.err = "" /\ t.accounts[a] = accounts[a] - amount /\ t.accounts[a] >= 0
    /\ initialized =>
        \A sender \in DOMAIN accounts, receiver \in DOMAIN accounts, amount \in Amounts :
            LET o1 == ft_transfer(State, sender, receiver, amount, ONE_YOCTO)
                o2 == ft_transfer_call(State, sender, receiver, amount, ONE_YOCTO)
            IN
            (sender # receiver /\ amount > accounts[sender]) =>
                /\ o1.err = NOT_ENOUGH_BALANCE /\ o1.st = State
                /\ o2.err = NOT_ENOUGH_BALANCE /\ o2.st = State

\* C16 witness: the sender of a pending transfer is left with balance 0 and
\* the receiver has closed its account with force: a further withdrawal of 1
\* from the sender is rejected
C16_Witness ==
    \E p \in promises, other \in AccountIds :
        /\ registered(State, p.sender_id)
        /\ ft_balance_of(p.sender_id) = 0
        /\ ~registered(State, p.receiver_id)
        /\ registered(State, other)
        /\ other # p.sender_id
        /\ ft_transfer(State, p.sender_id, other, 1, ONE_YOCTO).err = NOT_ENOUGH_BALANCE
        /\ internal_withdraw(TokenOf(State), p.sender_id, 1).err = NOT_ENOUGH_BALANCE

\* the outcomes of a notification with the unused amount each stands for: a
\* declared n counts as n clamped to the amount, a failure as the amount
C17_Outcomes(amount) ==
    {<<Successful(to_json_U128(n)), IF n > amount THEN amount ELSE n>> : n \in Declared}
        \cup {<<result, amount>> : result \in FailureResults}

\* C17 as stated: a resolution with unused amount u > 0 while the receiver
\* holds r < u does not fail and moves exactly min(u, r) from the receiver to
\* the sender, leaving the receiver at r - min(u, r).
C17_ClampedRefundToSender ==
    \A p \in promises :
        \A c \in C17_Outcomes(p.amount) :
            LET o == ft_resolve_transfer(State, p, c[1])
                u == c[2]
                r == ft_balance_of(p.receiver_id)
            IN
            (u > 0 /\ r < u) =>
                /\ o.err = ""
                /\ balance_of(o.st, p.receiver_id) = r - Min(u, r)
                /\ balance_of(o.st, p.sender_id) = ft_balance_of(p.sender_id) + Min(u, r)

\* C17 amended: a resolution with unused amount u > 0 while the receiver
\* holds r < u does not fail and takes exactly min(u, r) from the receiver,
\* leaving it at r - min(u, r) >= 0; that amount is credited to the sender
\* if the sender's account still exists, and is burned otherwise (the sender
\* gets nothing and the total supply drops by it).
C17_ClampedRefund ==
    \A p \in promises :
        \A c \in C17_Outcomes(p.amount) :
            LET o == ft_resolve_transfer(State, p, c[1])
                u == c[2]
                r == ft_balance_of(p.receiver_id)
            IN
            (u > 0 /\ r < u) =>
                /\ o.err = ""
                /\ balance_of(o.st, p.receiver_id) = r - Min(u, r)
                /\ balance_of(o.st, p.receiver_id) >= 0
                /\ IF registered(State, p.sender_id)
                   THEN /\ balance_of(o.st, p.sender_id) = ft_balance_of(p.sender_id) + Min(u, r)
                        /\ o.st.total_supply = total_supply
                   ELSE /\ ~registered(o.st, p.sender_id)
                        /\ balance_of(o.st, p.sender_id) = 0
                        /\ o.st.total_supply = total_supply - Min(u, r)
                /\ \A a \in AccountIds \ {p.sender_id, p.receiver_id} :
                        balance_of(o.st, a) = ft_balance_of(a)

\* C17 witness: the receiver of a pending transfer of 2 has passed 1 on to a
\* third account and declares 2 unused: the resolution takes the 1 it still
\* holds and gives it to the sender
C17_Witness ==
    \E p \in promises, third \in AccountIds :
        LET o == ft_resolve_transfer(State, p, Successful(to_json_U128(2))) IN
        /\ p.amount = 2
        /\ third \notin {p.sender_id, p.receiver_id}
        /\ ft_balance_of(third) = 1
        /\ ft_balance_of(p.receiver_id) = 1
        /\ ft_balance_of(p.sender_id) = 0
        /\ registered(State, p.sender_id)
        /\ o.err = ""
        /\ balance_of(o.st, p.receiver_id) = 0
        /\ balance_of(o.st, p.sender_id) = 1

\* the ids of the promise chains that are pending
PendingIds(st) == {p.id : p \in st.promises}

Committed(id) == id \in PendingIds(State)

\* promise chain id has been committed and is no longer pending (Resolved)
Resolved(id) == id <= next_promise /\ id \notin PendingIds(State)

\* C19: with the runtime running every callback it has scheduled, every
\* committed transfer is eventually resolved, whatever its notification
\* answers: no outcome makes the callback fail, each outcome ends the chain
\* with refunded + kept + burned equal to the amount, and a resolved
\* transfer never becomes pending again.
C19_EventuallyResolved ==
    /\ \A id \in 1 .. MaxPromises : Committed(id) ~> Resolved(id)
    /\ [](\A p \in promises, result \in PromiseResults :
            LET o == ft_resolve_transfer(State, p, result)
                refunded == balance_of(o.st, p.sender_id) - ft_balance_of(p.sender_id)
                taken == ft_balance_of(p.receiver_id) - balance_of(o.st, p.receiver_id)
                burned == total_supply - o.st.total_supply
            IN
            /\ o.err = ""
            /\ p \notin o.st.promises
            /\ refunded + (p.amount - taken) + burned = p.amount)
    /\ [][\A id \in 1 .. MaxPromises : Resolved(id) => Resolved(id)']_vars

\* C19 witness: every transfer-and-call the bound allows has been committed
\* and resolved, and all tokens are still accounted to the accounts
C19_Witness ==
    /\ next_promise = MaxPromises
    /\ \A id \in 1 .. MaxPromises : Resolved(id)
    /\ ft_total_supply = MaxSupply
    /\ Cardinality({a \in AccountIds : ft_balance_of(a) > 0}) = 2

\* C20 as stated: when the receiver of a pending ft_transfer_call is not
\* registered at the resolution and the unused amount u > 0 cannot be
\* returned, the resolution does not fail, does not credit the sender, burns
\* that amount with an on_tokens_burned log record, and the total supply
\* drops by exactly the burned amount.
C20_BurnWhenReceiverGone ==
    \A p \in promises :
        \A c \in C17_Outcomes(p.amount) :
            LET o == ft_resolve_transfer(State, p, c[1])
                u == c[2]
                burned == total_supply - o.st.total_supply
            IN
            (u > 0 /\ ~registered(State, p.receiver_id)) =>
                /\ o.err = ""
                /\ balance_of(o.st, p.sender_id) = ft_balance_of(p.sender_id)
                /\ burned = u
                /\ \E i \in 1 .. Len(o.log) :
                        o.log[i] = LogEntry("Account burned", p.sender_id, "", burned)

\* C20 amended: the resolution never fails.  When the sender's account is
\* gone at the resolution and u > 0 is unused, the sender is not credited:
\* min(u, receiver's balance) is taken from the receiver and burned, logged
\* by on_tokens_burned when it is not 0, and the total supply drops by
\* exactly it.  When the receiver's account is gone, its tokens were burned
\* by its storage_unregister; the resolution then moves and burns nothing,
\* logs nothing and reports the whole amount as used.
C20_BurnWhenSenderGone ==
    \A p \in promises :
        \A c \in C17_Outcomes(p.amount) :
            LET o == ft_resolve_transfer(State, p, c[1])
                u == c[2]
                r == ft_balance_of(p.receiver_id)
                burned == total_supply - o.st.total_supply
                burn_logged ==
                    \E i \in 1 .. Len(o.log) :
                        o.log[i] = LogEntry("Account burned", p.sender_id, "", burned)
            IN
            /\ o.err = ""
            /\ (u > 0 /\ ~registered(State, p.sender_id)) =>
                /\ ~registered(o.st, p.sender_id)
                /\ balance_of(o.st, p.sender_id) = 0
                /\ burned = Min(u, r)
                /\ balance_of(o.st, p.receiver_id) = r - burned
                /\ burned > 0 => (burn_logged /\ Len(o.log) = 2)
                /\ burned = 0 => o.log = << >>
                /\ o.ret = p.amount
            /\ (u > 0 /\ ~registered(State, p.receiver_id)) =>
                /\ o.st.accounts = accounts
                /\ burned = 0
                /\ o.log = << >>
                /\ o.ret = p.amount
            /\ registered(State, p.sender_id) => burned = 0

\* C20 witness: of a supply of 2 one token was burned when the sender closed
\* its account with force while its transfer of 1 was pending; the receiver
\* declares the 1 unused and the resolution burns it, leaving no supply
C20_Witness ==
    \E p \in promises :
        LET o == ft_resolve_transfer(State, p, Successful(to_json_U128(1))) IN
        /\ p.amount = 1
        /\ ~registered(State, p.sender_id)
        /\ ft_balance_of(p.receiver_id) = 1
        /\ ft_total_supply = 1
        /\ o.err = ""
        /\ o.st.total_supply = 0
        /\ o.log[2] = LogEntry("Account burned", p.sender_id, "", 1)
        /\ balance_of(o.st, p.receiver_id) = 0
====
